---- MODULE Spec2Model ----
(***************************************************************************)
(* LaserData (laser_data.py): the mesh, the sampled parameter arrays, the  *)
(* unit conversion, the optical mode selection and the equilibrium solve   *)
(* of a 1D laser diode.                                                    *)
(*                                                                         *)
(* Numbers.  Every numeric field of LaserData is a numpy float64.  A float *)
(* is modelled as a binary floating-point number with a P-bit significand: *)
(* an integer count of quanta, One quanta making 1.0, of which only the    *)
(* integers m * 2^k with m < 2^P are representable.  Every arithmetic      *)
(* operation rounds its exact result to the nearest representable number,  *)
(* ties to even, as IEEE 754 does.  The magnitudes of the physical         *)
(* constants (1e-9 s, 1.6e-19 C, ...) are replaced by magnitudes that fit  *)
(* this format; the formulas that combine them are the ones of units.py.   *)
(***************************************************************************)
EXTENDS Integers, Sequences, FiniteSets, TLC

\* significand bits of the floating-point format
P == 4
\* quanta per 1.0: what lies between One/64 and 16*One is a normal number
One == 2^(P + 5)
\* calls of generate_nonuniform_mesh in one run
MaxRegen == 1

Abs(a) == IF a < 0 THEN -a ELSE a

\* the spacing of the representable numbers around num/den (s = 2^k, k >= 0)
RECURSIVE Ulp(_, _, _)
Ulp(num, den, s) == IF num < (2^P) * den * s THEN s ELSE Ulp(num, den, 2 * s)

RoundHalfEven(num, den) ==
  LET qq == num \div den
      r == num % den
  IN  IF 2 * r < den THEN qq
      ELSE IF 2 * r > den THEN qq + 1
      ELSE IF qq % 2 = 0 THEN qq ELSE qq + 1

\* num/den (den > 0) rounded to the nearest representable number
Rnd(num, den) ==
  LET a == Abs(num)
      s == Ulp(a, den, 1)
      m == RoundHalfEven(a, den * s)
  IN  IF num < 0 THEN -(m * s) ELSE m * s

FAdd(a, b) == Rnd(a + b, 1)
FSub(a, b) == Rnd(a - b, 1)
FMul(a, b) == Rnd(a * b, One)
\* a / b, b > 0
FDiv(a, b) == Rnd(a * One, b)

Quarter == One \div 4

(***************************************************************************)
(* constants.py (not among the sources): the physical constants, here with *)
(* magnitudes of the format above.                                         *)
(***************************************************************************)
const_kb == One \div 2
const_T == 3 * (One \div 2)
const_q == 3 * Quarter
const_eps_0 == 2 * One
const_c == 3 * One
const_fca_e == One
const_fca_h == 2 * One

(***************************************************************************)
(* units.py                                                                *)
(***************************************************************************)
units_t == Quarter
units_E == FMul(const_kb, const_T)
units_V == FDiv(units_E, One)
units_q == const_q
units_x == FDiv(units_q, FMul(const_eps_0, units_V))
units_n == FDiv(One, FMul(FMul(units_x, units_x), units_x))
units_mu == FDiv(FMul(units_x, units_x), FMul(units_V, units_t))

\* laser_data.py: the tables of parameter names and of their unit values
input_params ==
  {"Ev", "Ec", "Nd", "Na", "Nc", "Nv", "mu_n", "mu_p", "tau_n", "tau_p",
   "B", "Cn", "Cp", "eps", "n_refr", "g0", "N_tr"}

midp_params == {"Ev", "Ec", "Nc", "Nv", "mu_n", "mu_p"}

unit_values(p) ==
  CASE p \in {"Ev", "Ec", "Eg"} -> units_E
    [] p \in {"Nd", "Na", "C_dop", "Nc", "Nv", "ni", "n0", "p0", "N_tr"} -> units_n
    [] p \in {"mu_n", "mu_p"} -> units_mu
    [] p \in {"tau_n", "tau_p"} -> units_t
    [] p = "B" -> FDiv(One, FMul(units_n, units_t))
    [] p \in {"Cn", "Cp"} -> FDiv(One, FMul(FMul(units_n, units_n), units_t))
    [] p \in {"eps", "n_refr"} -> One
    [] p \in {"wg_mode", "g0"} -> FDiv(One, units_x)
    [] p \in {"psi_lcn", "psi_eq"} -> units_V

(***************************************************************************)
(* The device (slice_1d.Slice, not among the sources): a stack of layers,  *)
(* each with a thickness and one value per parameter.  Layer k owns the    *)
(* positions from its lower boundary up to, not including, its upper one;  *)
(* a position past the stack is answered with the last layer.  The device  *)
(* is described in physical units and knows no other.                      *)
(***************************************************************************)
LayerThickness == <<One, 2 * One, One, One>>

NLayers == Len(LayerThickness)

RECURSIVE Boundary(_)
Boundary(k) == IF k = 0 THEN 0 ELSE Boundary(k - 1) + LayerThickness[k]

get_thickness == Boundary(NLayers)

get_index(pos) ==
  IF pos >= get_thickness THEN NLayers
  ELSE CHOOSE k \in 1..NLayers : Boundary(k - 1) <= pos /\ pos < Boundary(k)

device_inds == [k \in 1..NLayers |-> k]

\* the layers' parameter values, in quarters
LayerTable ==
  [Ev     |-> <<0, -1, 0, 0>>,
   Ec     |-> <<13, 15, 13, 13>>,
   Nd     |-> <<8, 4, 2, 0>>,
   Na     |-> <<0, 0, 0, 8>>,
   Nc     |-> <<2, 3, 2, 2>>,
   Nv     |-> <<4, 5, 4, 4>>,
   mu_n   |-> <<8, 3, 8, 8>>,
   mu_p   |-> <<3, 1, 3, 3>>,
   tau_n  |-> <<2, 2, 2, 2>>,
   tau_p  |-> <<2, 2, 2, 2>>,
   B      |-> <<1, 1, 1, 1>>,
   Cn     |-> <<2, 2, 2, 2>>,
   Cp     |-> <<2, 2, 2, 2>>,
   eps    |-> <<13, 12, 13, 13>>,
   n_refr |-> <<14, 13, 14, 14>>,
   g0     |-> <<6, 0, 6, 6>>,
   N_tr   |-> <<7, 1, 7, 7>>]

get_value(p, pos) == LayerTable[p][get_index(pos)] * Quarter

(***************************************************************************)
(* numpy helpers                                                           *)
(***************************************************************************)
\* np.arange(0, d, step): ceil(d / step) points, the i-th being i * step
Arange(d, step) ==
  LET n == (d + step - 1) \div step
  IN  [i \in 1..n |-> Rnd((i - 1) * step, 1)]

\* (x[1:] + x[:-1]) / 2
Midpoints(xs) ==
  [i \in 1..(Len(xs) - 1) |-> FDiv(FAdd(xs[i + 1], xs[i]), 2 * One)]

\* a[keep] for a boolean array keep
RECURSIVE Masked(_, _)
Masked(a, keep) ==
  IF Len(a) = 0 THEN <<>>
  ELSE LET rest == Masked(Tail(a), Tail(keep))
       IN  IF Head(keep) THEN <<Head(a)>> \o rest ELSE rest

\* a.sum(), summed in index order
RECURSIVE FSum(_)
FSum(a) == IF Len(a) = 0 THEN 0 ELSE FAdd(FSum(SubSeq(a, 1, Len(a) - 1)), a[Len(a)])

SeqMax(a) == CHOOSE m \in {a[i] : i \in DOMAIN a} : \A i \in DOMAIN a : a[i] <= m

\* np.argmax: the first index of the largest entry
ArgMax(a) ==
  CHOOSE i \in DOMAIN a :
    /\ \A j \in DOMAIN a : a[j] <= a[i]
    /\ \A j \in DOMAIN a : j < i => a[j] < a[i]

\* scipy interp1d(xs, ys)(xq), linear, for xs[1] <= xq <= xs[-1]
Linear(xs, ys, xq) ==
  LET hi == IF xq <= xs[1] THEN 2
            ELSE CHOOSE k \in 2..Len(xs) : xs[k - 1] < xq /\ xq <= xs[k]
      lo == hi - 1
      slope == FDiv(FSub(ys[hi], ys[lo]), FSub(xs[hi], xs[lo]))
  IN  FAdd(FMul(slope, FSub(xq, xs[lo])), ys[lo])

\* interp1d(xs, ys, bounds_error=False, fill_value=0)(xq)
Interp(f, xq) ==
  IF xq < f.xs[1] \/ xq > f.xs[Len(f.xs)] THEN 0 ELSE Linear(f.xs, f.ys, xq)

\* floor(sqrt(n)) by bisection
RECURSIVE ISqrt(_, _, _)
ISqrt(n, lo, hi) ==
  IF hi - lo <= 1 THEN lo
  ELSE LET mid == (lo + hi) \div 2
       IN  IF mid * mid <= n THEN ISqrt(n, mid, hi) ELSE ISqrt(n, lo, mid)

\* np.sqrt
FSqrt(a) == Rnd(ISqrt(a * One * 256, 0, a * 16 + One * 16 + 1), 16)

\* np.exp(-z), z >= 0: the exponential is not computed; 1 / (1 + z) stands for
\* it, positive, decreasing and 1 at z = 0
FExpNeg(z) == FDiv(One, FAdd(One, z))

(***************************************************************************)
(* The state of one LaserData object.                                      *)
(***************************************************************************)
VARIABLES
  x,                  \* mesh nodes
  xm,                 \* mesh midpoints
  values,             \* parameter name -> array over x
  midp_values,        \* parameter name -> array over xm
  ar_ix,              \* boolean array: the active region
  ar_ind,             \* the layer id of the active region
  laser,              \* the scalars L, w, alpha_i, alpha_m, vg, Vt, q, eps_0, fca_e, fca_h
  n_eff,              \* effective index of the selected mode
  Gamma_f,            \* interpolator of the selected mode, physical
  Gamma_f_nd,         \* interpolator of the selected mode, dimensionless
  is_dimensionless,
  solved_lcn,
  solved_equilibrium,
  delta,              \* the corrections of the last equilibrium solve
  call,               \* the last call: its name, the exception it raised, its locals
  unit_of,            \* per field, the unit system its numbers are expressed in
  snap,               \* the fields as they were before the last make_dimensionless
  n_regen             \* calls of generate_nonuniform_mesh so far

fields == <<x, xm, values, midp_values, ar_ix, ar_ind, laser, n_eff, Gamma_f,
            Gamma_f_nd, is_dimensionless, solved_lcn, solved_equilibrium, delta>>

vars == <<x, xm, values, midp_values, ar_ix, ar_ind, laser, n_eff, Gamma_f,
          Gamma_f_nd, is_dimensionless, solved_lcn, solved_equilibrium, delta,
          call, unit_of, snap, n_regen>>

\* a call of op that raised err (or "none") and ended with the locals loc
Call(op, err, loc) == [op |-> op, err |-> err, loc |-> loc]

NoLocals == [n |-> 0]

NoSnap == [taken |-> FALSE]

(***************************************************************************)
(* Unit systems.  A field written from the device, or from physical        *)
(* fields alone, is physical; dividing a physical field by its unit value  *)
(* makes it dimensionless, multiplying a dimensionless one makes it        *)
(* physical; anything else is in neither system.                           *)
(***************************************************************************)
Divided(u) == IF u = "physical" THEN "dimensionless" ELSE "mixed"

Multiplied(u) == IF u = "dimensionless" THEN "physical" ELSE "mixed"

\* the unit system of a result computed from fields in the systems us
Combined(us) == IF Cardinality(us) = 1 THEN CHOOSE u \in us : TRUE ELSE "mixed"

ModeName(nd) == IF nd THEN "dimensionless" ELSE "physical"

(***************************************************************************)
(* LaserData._calculate_values                                             *)
(***************************************************************************)
_calculate_values(xs, Vt) ==
  LET nodes == 1..Len(xs)
      inp == [p \in input_params |-> [i \in nodes |-> get_value(p, xs[i])]]
      Eg == [i \in nodes |-> FSub(inp["Ec"][i], inp["Ev"][i])]
      C_dop == [i \in nodes |-> FSub(inp["Nd"][i], inp["Na"][i])]
      ni == [i \in nodes |->
               FMul(FSqrt(FMul(inp["Nc"][i], inp["Nv"][i])),
                    FExpNeg(FDiv(Eg[i], FMul(2 * One, Vt))))]
  IN  inp @@ ("Eg" :> Eg) @@ ("C_dop" :> C_dop) @@ ("ni" :> ni)

_calculate_midp_values(xms) ==
  [p \in midp_params |-> [i \in 1..Len(xms) |-> get_value(p, xms[i])]]

\* the unit systems of what _calculate_values writes, Vt being in system uVt
_calculate_units(uVt) ==
  [p \in input_params \cup {"Eg", "C_dop"} |-> "physical"]
    @@ ("ni" :> Combined({"physical", uVt}))

(***************************************************************************)
(* solve_wg (waveguide.py, not among the sources): n_modes effective       *)
(* indices and n_modes mode profiles over the positions it is given.  Two  *)
(* profiles stand for what it may return: one peaked at the lower end of   *)
(* the positions, one at the upper end.                                    *)
(***************************************************************************)
ModeShapes == {"lower", "upper"}

ModeProfile(shape, n) ==
  [j \in 1..n |->
     IF shape = "lower" THEN (IF j = 1 THEN One ELSE One \div 2)
     ELSE (IF j = n THEN One ELSE One \div 2)]

\* __init__'s arguments
n_modes == 2
step == One
L0 == 2 * One
w0 == One
alpha_i0 == One
alpha_m0 == 3 * Quarter
ng == 3 * (One \div 2)

ArInds == {2, 3}

solve_wg_n_eff == [m \in 1..n_modes |-> 3 * One + (n_modes - m) * Quarter]

(***************************************************************************)
(* LaserData.__init__                                                      *)
(***************************************************************************)
\* the overlap of a mode with the active region: (mode*step)[ix].sum()
Overlap(mode, stp, ix) == FSum(Masked([j \in DOMAIN mode |-> FMul(mode[j], stp)], ix))

\* the nodes the waveguide solver is given
WgKeep(inds, remove_cl) ==
  [i \in DOMAIN inds |->
     IF remove_cl
     THEN ~(inds[i] = device_inds[1] \/ inds[i] = device_inds[NLayers])
     ELSE TRUE]

\* the last index of the largest entry
ArgMaxLast(a) ==
  CHOOSE i \in DOMAIN a :
    /\ \A j \in DOMAIN a : a[j] <= a[i]
    /\ \A j \in DOMAIN a : j > i => a[j] < a[i]

SelectMode(gammas) == ArgMax(gammas)

Construct(ar, remove_cl, shapes) ==
  LET x0 == Arange(get_thickness, step)
      xm0 == Midpoints(x0)
      inds == [i \in DOMAIN x0 |-> get_index(x0[i])]
      Vt == FMul(const_kb, const_T)
      vals == _calculate_values(x0, Vt)
      keep == WgKeep(inds, remove_cl)
      xw == Masked(x0, keep)
      modes == [m \in 1..n_modes |-> ModeProfile(shapes[m], Len(xw))]
      ix == [j \in DOMAIN xw |-> get_index(xw[j]) = ar]
      gammas == [m \in 1..n_modes |-> Overlap(modes[m], step, ix)]
      i == SelectMode(gammas)
  IN  [x |-> x0, xm |-> xm0,
       ar_ix |-> [k \in DOMAIN x0 |-> inds[k] = ar],
       values |-> vals @@ ("wg_mode" :> modes[i]),
       midp_values |-> _calculate_midp_values(xm0),
       laser |-> [L |-> L0, w |-> w0, alpha_i |-> alpha_i0, alpha_m |-> alpha_m0,
                  vg |-> FDiv(const_c, ng), Vt |-> Vt, q |-> const_q,
                  eps_0 |-> const_eps_0, fca_e |-> const_fca_e,
                  fca_h |-> const_fca_h],
       n_eff |-> solve_wg_n_eff[i],
       Gamma_f |-> [xs |-> xw, ys |-> modes[i]],
       Gamma_f_nd |-> [xs |-> [j \in DOMAIN xw |-> FDiv(xw[j], units_x)],
                       ys |-> [j \in DOMAIN xw |-> FMul(modes[i][j], units_x)]],
       loc |-> [n |-> n_modes, modes |-> modes, gammas |-> gammas, i |-> i,
                remove_cl |-> remove_cl]]

InitUnits ==
  [x |-> "physical", xm |-> "physical",
   values |-> _calculate_units("physical") @@ ("wg_mode" :> "physical"),
   midp_values |-> [p \in midp_params |-> "physical"],
   laser |-> [f \in {"L", "w", "alpha_i", "alpha_m", "vg", "Vt", "q", "eps_0",
                     "fca_e", "fca_h"} |-> "physical"]]

\* the state after LaserData(device, ar, ..., remove_cl), the waveguide solver
\* having returned one of the profile tuples of shapeSets
Constructed(ars, shapeSets) ==
  \E ar \in ars, remove_cl \in BOOLEAN, shapes \in shapeSets :
    \E c \in {Construct(ar, remove_cl, shapes)} :
        /\ x = c.x
        /\ xm = c.xm
        /\ values = c.values
        /\ midp_values = c.midp_values
        /\ ar_ix = c.ar_ix
        /\ ar_ind = ar
        /\ laser = c.laser
        /\ n_eff = c.n_eff
        /\ Gamma_f = c.Gamma_f
        /\ Gamma_f_nd = c.Gamma_f_nd
        /\ is_dimensionless = FALSE
        /\ solved_lcn = FALSE
        /\ solved_equilibrium = FALSE
        /\ delta = <<>>
        /\ call = Call("__init__", "none", c.loc)
        /\ unit_of = InitUnits
        /\ snap = NoSnap
        /\ n_regen = 0

\* the active region is layer 3, the solver returns the lower-peaked profile
\* first and upper-peaked ones after it
Init ==
  Constructed({3}, {[m \in 1..n_modes |-> IF m = 1 THEN "lower" ELSE "upper"]})

\* any active region, any profiles
InitModes == Constructed(ArInds, [1..n_modes -> ModeShapes])

(***************************************************************************)
(* LaserData.make_dimensionless and LaserData.original_units               *)
(***************************************************************************)
DivAll(a, u) == [i \in DOMAIN a |-> FDiv(a[i], u)]

MulAll(a, u) == [i \in DOMAIN a |-> FMul(a[i], u)]

\* the scalars of make_dimensionless, each divided by its unit value
LaserDivided(l) ==
  [L |-> FDiv(l.L, units_x),
   w |-> FDiv(l.w, units_x),
   alpha_i |-> FDiv(l.alpha_i, FDiv(One, units_x)),
   alpha_m |-> FDiv(l.alpha_m, FDiv(One, units_x)),
   vg |-> FDiv(l.vg, FDiv(units_x, units_t)),
   Vt |-> FDiv(l.Vt, units_E),
   q |-> FDiv(l.q, units_q),
   eps_0 |-> One,
   fca_e |-> FDiv(l.fca_e, FMul(units_x, units_x)),
   fca_h |-> FDiv(l.fca_h, FMul(units_x, units_x))]

\* the scalars of original_units, each multiplied by its unit value
LaserMultiplied(l) ==
  [L |-> FMul(l.L, units_x),
   w |-> FMul(l.w, units_x),
   alpha_i |-> FMul(l.alpha_i, FDiv(One, units_x)),
   alpha_m |-> FMul(l.alpha_m, FDiv(One, units_x)),
   vg |-> FMul(l.vg, FDiv(units_x, units_t)),
   Vt |-> FMul(l.Vt, units_E),
   q |-> FMul(l.q, units_q),
   eps_0 |-> const_eps_0,
   fca_e |-> FMul(l.fca_e, FMul(units_x, units_x)),
   fca_h |-> FMul(l.fca_h, FMul(units_x, units_x))]

ValuesDivided(vals) == [p \in DOMAIN vals |-> DivAll(vals[p], unit_values(p))]

\* original_units multiplying every array by the unit of length
ValuesMultipliedByLength(vals) == [p \in DOMAIN vals |-> MulAll(vals[p], units_x)]

ValuesMultiplied(vals) == [p \in DOMAIN vals |-> MulAll(vals[p], unit_values(p))]

\* the unit systems after every field went through conv (Divided or Multiplied);
\* eps_0 is assigned, not scaled
UnitsConverted(u, conv(_), eps0) ==
  [x |-> conv(u.x), xm |-> conv(u.xm),
   values |-> [p \in DOMAIN u.values |-> conv(u.values[p])],
   midp_values |-> [p \in DOMAIN u.midp_values |-> conv(u.midp_values[p])],
   laser |-> [f \in DOMAIN u.laser |-> IF f = "eps_0" THEN eps0 ELSE conv(u.laser[f])]]

Snapshot ==
  [taken |-> TRUE, x |-> x, xm |-> xm, values |-> values,
   midp_values |-> midp_values, laser |-> laser]

\* make_dimensionless without its assertion
MayAlwaysConvert(nd) == TRUE

\* the assertion that opens make_dimensionless
MayMakeDimensionless(nd) == ~nd

\* the assertion that opens original_units
MayRestoreUnits(nd) == nd

make_dimensionless ==
  IF ~MayMakeDimensionless(is_dimensionless)
  THEN /\ call' = Call("make_dimensionless", "AssertionError", NoLocals)
       /\ UNCHANGED <<fields, unit_of, snap, n_regen>>
  ELSE /\ x' = DivAll(x, units_x)
       /\ xm' = DivAll(xm, units_x)
       /\ values' = ValuesDivided(values)
       /\ midp_values' = ValuesDivided(midp_values)
       /\ laser' = LaserDivided(laser)
       /\ is_dimensionless' = TRUE
       /\ unit_of' = UnitsConverted(unit_of, Divided, "dimensionless")
       /\ snap' = Snapshot
       /\ call' = Call("make_dimensionless", "none", NoLocals)
       /\ UNCHANGED <<ar_ix, ar_ind, n_eff, Gamma_f, Gamma_f_nd, solved_lcn,
                      solved_equilibrium, delta, n_regen>>

original_units ==
  IF ~MayRestoreUnits(is_dimensionless)
  THEN /\ call' = Call("original_units", "AssertionError", NoLocals)
       /\ UNCHANGED <<fields, unit_of, snap, n_regen>>
  ELSE /\ x' = MulAll(x, units_x)
       /\ xm' = MulAll(xm, units_x)
       /\ values' = ValuesMultiplied(values)
       /\ midp_values' = ValuesMultiplied(midp_values)
       /\ laser' = LaserMultiplied(laser)
       /\ is_dimensionless' = FALSE
       /\ unit_of' = UnitsConverted(unit_of, Multiplied, "physical")
       /\ snap' = IF call.op = "make_dimensionless" /\ call.err = "none"
                  THEN snap ELSE NoSnap
       /\ call' = Call("original_units", "none", NoLocals)
       /\ UNCHANGED <<ar_ix, ar_ind, n_eff, Gamma_f, Gamma_f_nd, solved_lcn,
                      solved_equilibrium, delta, n_regen>>

(***************************************************************************)
(* LaserData.generate_nonuniform_mesh                                      *)
(***************************************************************************)
\* f = np.abs(y_ext[2:] - y_ext[:-2]), y extended by y0 and yn
Change(y, y0, yn) ==
  LET y_ext == <<y0>> \o y \o <<yn>>
  IN  [i \in DOMAIN y |-> Abs(FSub(y_ext[i + 2], y_ext[i]))]

\* fg[i] = np.sum(f * gauss(x, x[i], sigma)) in the two limits of sigma: a
\* kernel far narrower than the mesh step is exactly 1 at x[i] and exactly 0
\* at every other node, one far wider than the device is exactly 1 everywhere
Smoothed(f, sigma) ==
  IF sigma = "narrow" THEN f ELSE [i \in DOMAIN f |-> FSum(f)]

\* fg / fg.max()
Normalised(fg) == [i \in DOMAIN fg |-> FDiv(fg[i], SeqMax(fg))]

\* the condition of the loop that grows the new grid
WalkGoesOn(xi, xs) == xi <= xs[Len(xs)]

\* step_min + (step_max - step_min) * (1 - fg_fun(xi))
LocalStep(xi, xs, fgn, step_min, step_max) ==
  FAdd(step_min, FMul(FSub(step_max, step_min), FSub(One, Linear(xs, fgn, xi))))

\* the loop: the grid it built and the point it stopped at
RECURSIVE Walk(_, _, _, _, _, _)
Walk(xi, grid, xs, fgn, step_min, step_max) ==
  IF WalkGoesOn(xi, xs)
  THEN Walk(FAdd(xi, LocalStep(xi, xs, fgn, step_min, step_max)),
            Append(grid, xi), xs, fgn, step_min, step_max)
  ELSE [grid |-> grid, xi |-> xi]

\* the mode profile on the new mesh, from the interpolator of the current mode
ModeOnMesh(xs, nd) ==
  [i \in DOMAIN xs |-> IF nd THEN Interp(Gamma_f_nd, xs[i]) ELSE Interp(Gamma_f, xs[i])]

\* arguments of generate_nonuniform_mesh: (step_min, step_max) and sigma
StepPairs == {<<3 * (One \div 2), 2 * One>>}

Sigmas == {"narrow", "wide"}

generate_nonuniform_mesh ==
  /\ n_regen < MaxRegen
  /\ n_regen' = n_regen + 1
  /\ IF Len(x) < 2
     THEN \* interp1d refuses fewer than two points
          /\ call' = Call("generate_nonuniform_mesh", "ValueError", NoLocals)
          /\ UNCHANGED <<fields, unit_of, snap>>
     ELSE \E steps \in StepPairs, sigma \in Sigmas :
          \E fgn \in {Normalised(Smoothed(Change(values["Eg"], 0, 0), sigma))} :
          \E end \in {Walk(0, <<>>, x, fgn, steps[1], steps[2])} :
            LET new == end.grid
            IN  /\ x' = new
                /\ xm' = Midpoints(new)
                /\ values' = _calculate_values(new, laser.Vt)
                               @@ ("wg_mode" :> ModeOnMesh(new, is_dimensionless))
                /\ midp_values' = _calculate_midp_values(Midpoints(new))
                /\ ar_ix' = [i \in DOMAIN new |-> get_index(new[i]) = ar_ind]
                /\ unit_of' =
                     [unit_of EXCEPT
                        !.xm = unit_of.x,
                        !.values = _calculate_units(unit_of.laser["Vt"])
                                     @@ ("wg_mode" :> ModeName(is_dimensionless)),
                        !.midp_values = [p \in midp_params |-> "physical"]]
                /\ snap' = NoSnap
                /\ call' = Call("generate_nonuniform_mesh", "none",
                                [n |-> Len(new), old_last |-> x[Len(x)],
                                 stopped_at |-> end.xi, step_min |-> steps[1],
                                 step_max |-> steps[2]])
                /\ UNCHANGED <<ar_ind, laser, n_eff, Gamma_f, Gamma_f_nd,
                               is_dimensionless, solved_lcn, solved_equilibrium,
                               delta>>

(***************************************************************************)
(* LaserData.solve_lcn                                                     *)
(***************************************************************************)
\* values[key] = a
Stored(vals, key, a) ==
  [p \in DOMAIN vals \cup {key} |-> IF p = key THEN a ELSE vals[p]]

\* eq.Ef_lcn_fermi (equilibrium.py, not among the sources): one potential per
\* node, found from that node's values alone; the band edge on the side of the
\* majority carrier stands for it
Ef_lcn_fermi(C_dop, Nc, Nv, Ec, Ev, Vt) ==
  [i \in DOMAIN C_dop |-> IF C_dop[i] >= 0 THEN Ec[i] ELSE Ev[i]]

LcnValues(vals, Vt) ==
  Stored(vals, "psi_lcn",
         Ef_lcn_fermi(vals["C_dop"], vals["Nc"], vals["Nv"], vals["Ec"], vals["Ev"], Vt))

LcnUnits(u) ==
  [u EXCEPT !.values =
     Stored(u.values, "psi_lcn",
            Combined({u.values[p] : p \in {"C_dop", "Nc", "Nv", "Ec", "Ev"}}
                       \cup {u.laser["Vt"]}))]

solve_lcn ==
  /\ values' = LcnValues(values, laser.Vt)
  /\ solved_lcn' = TRUE
  /\ unit_of' = LcnUnits(unit_of)
  /\ snap' = NoSnap
  /\ call' = Call("solve_lcn", "none", NoLocals)
  /\ UNCHANGED <<x, xm, midp_values, ar_ix, ar_ind, laser, n_eff, Gamma_f,
                 Gamma_f_nd, is_dimensionless, solved_equilibrium, delta, n_regen>>

(***************************************************************************)
(* LaserData.solve_equilibrium                                             *)
(***************************************************************************)
\* arguments of solve_equilibrium
NIters == {0, 1, 2}
lam == One
delta_max == One \div 8

\* The Newton corrections come from eq.poisson_jac, eq.poisson_res and
\* solve_banded (not among the sources).  An iteration is one of two: its
\* correction is d at every interior node, so that mean(|dpsi|) = d, with d
\* below or above delta_max.
Corrections == {One \div 16, One \div 4}

\* psi[1:-1] += lam*dpsi, for each correction of ds in turn
RECURSIVE Newton(_, _)
Newton(psi, ds) ==
  IF Len(ds) = 0 THEN psi
  ELSE Newton([i \in DOMAIN psi |->
                 IF 1 < i /\ i < Len(psi) THEN FAdd(psi[i], FMul(lam, Head(ds)))
                 ELSE psi[i]],
              Tail(ds))

\* cc.n and cc.p (carrier_concentrations.py, not among the sources), node by node
cc_n(psi, Nc, Ec, Vt) ==
  [i \in DOMAIN psi |-> FMul(Nc[i], FExpNeg(FDiv(Abs(FSub(Ec[i], psi[i])), Vt)))]

cc_p(psi, Nv, Ev, Vt) ==
  [i \in DOMAIN psi |-> FMul(Nv[i], FExpNeg(FDiv(Abs(FSub(psi[i], Ev[i])), Vt)))]

\* what the check of the last correction does: "ok", or the exception it raises
ConvergenceCheck(ds, dmax) ==
  IF Len(ds) = 0 THEN "IndexError"
  ELSE IF ds[Len(ds)] < dmax THEN "ok" ELSE "AssertionError"

\* the solution stored before the check is made
EquilibriumValuesStoredFirst(vals, psi, Vt, outcome) ==
  Stored(Stored(Stored(vals, "psi_eq", psi),
                "n0", cc_n(psi, vals["Nc"], vals["Ec"], Vt)),
         "p0", cc_p(psi, vals["Nv"], vals["Ev"], Vt))

\* the values after the check came out as outcome
EquilibriumValues(vals, psi, Vt, outcome) ==
  IF outcome = "ok"
  THEN Stored(Stored(Stored(vals, "psi_eq", psi),
                     "n0", cc_n(psi, vals["Nc"], vals["Ec"], Vt)),
              "p0", cc_p(psi, vals["Nv"], vals["Ev"], Vt))
  ELSE vals

EquilibriumUnits(u) ==
  LET upsi == u.values["psi_lcn"]
      un == Combined({upsi, u.values["Nc"], u.values["Ec"], u.laser["Vt"]})
      up == Combined({upsi, u.values["Nv"], u.values["Ev"], u.laser["Vt"]})
  IN  [u EXCEPT !.values =
         Stored(Stored(Stored(u.values, "psi_eq", upsi), "n0", un), "p0", up)]

solve_equilibrium ==
  /\ Len(x) >= 3
  /\ \E n_iter \in NIters :
     \E ds \in [1..n_iter -> Corrections] :
     \E vals1 \in {IF solved_lcn THEN values ELSE LcnValues(values, laser.Vt)} :
       IF "psi_lcn" \notin DOMAIN vals1
       THEN /\ call' = Call("solve_equilibrium", "KeyError",
                            [n |-> n_iter, delta_max |-> delta_max])
            /\ UNCHANGED <<fields, unit_of, snap, n_regen>>
       ELSE \E psi \in {Newton(vals1["psi_lcn"], ds)} :
              LET outcome == ConvergenceCheck(ds, delta_max)
                  u1 == IF solved_lcn THEN unit_of ELSE LcnUnits(unit_of)
              IN  /\ delta' = ds
                  /\ solved_lcn' = TRUE
                  /\ values' = EquilibriumValues(vals1, psi, laser.Vt, outcome)
                  /\ solved_equilibrium' = (solved_equilibrium \/ outcome = "ok")
                  /\ unit_of' = IF outcome = "ok" THEN EquilibriumUnits(u1) ELSE u1
                  /\ snap' = NoSnap
                  /\ call' = Call("solve_equilibrium",
                                  IF outcome = "ok" THEN "none" ELSE outcome,
                                  [n |-> n_iter, delta_max |-> delta_max])
                  /\ UNCHANGED <<x, xm, midp_values, ar_ix, ar_ind, laser, n_eff,
                                 Gamma_f, Gamma_f_nd, is_dimensionless, n_regen>>

Next ==
  \/ make_dimensionless
  \/ original_units
  \/ generate_nonuniform_mesh
  \/ solve_lcn
  \/ solve_equilibrium

Spec == Init /\ [][Next]_vars

\* construction with every outcome of the mode selection, then the calls that
\* keep the mesh
NextModes ==
  \/ make_dimensionless
  \/ original_units
  \/ solve_lcn

SpecModes == InitModes /\ [][NextModes]_vars

(***************************************************************************)
(* Properties                                                              *)
(***************************************************************************)
ScaledScalars == {"L", "w", "alpha_i", "alpha_m", "vg", "Vt", "q", "eps_0"}

EquilibriumFields == {"psi_eq", "n0", "p0"}

\* C1: in every reachable state every numeric field (x, xm, every array of
\* values and midp_values, L, w, alpha_i, alpha_m, vg, Vt, q, eps_0) is
\* expressed in the unit system is_dimensionless names.
C1_AllFieldsInNamedUnits ==
  LET m == ModeName(is_dimensionless)
  IN  /\ unit_of.x = m
      /\ unit_of.xm = m
      /\ \A p \in DOMAIN values : unit_of.values[p] = m
      /\ \A p \in DOMAIN midp_values : unit_of.midp_values[p] = m
      /\ \A f \in ScaledScalars : unit_of.laser[f] = m

\* C2: make_dimensionless called on a dimensionless state, and original_units
\* called on a physical state, raise the assertion error and change no field.
C2_ConvertersGuarded ==
  [][/\ (call'.op = "make_dimensionless" /\ is_dimensionless)
          => (call'.err = "AssertionError" /\ UNCHANGED fields)
     /\ (call'.op = "original_units" /\ ~is_dimensionless)
          => (call'.err = "AssertionError" /\ UNCHANGED fields)]_vars

\* two make_dimensionless calls in a row: the second one failed
C2_Witness ==
  /\ call.op = "make_dimensionless"
  /\ call.err = "AssertionError"
  /\ is_dimensionless
  /\ snap.taken

\* whether the last correction of the last solve is below the tolerance
LastCorrectionSmall == Len(delta) >= 1 /\ delta[Len(delta)] < call.loc.delta_max

\* C3: a solve_equilibrium call that ran its iteration is accepted only if the
\* last correction is below delta_max; for any n_iter, every other outcome
\* raises the convergence failure (the assertion error) and stores nothing.
C3_AcceptedOnlyIfConverged ==
  (call.op = "solve_equilibrium" /\ call.err # "KeyError") =>
    /\ call.err = "none" => LastCorrectionSmall
    /\ ~LastCorrectionSmall => call.err = "AssertionError"

\* C4: a solve_equilibrium call that ends in the convergence failure writes
\* none of psi_eq, n0, p0 and leaves solved_equilibrium as it was; after such a
\* call on a state that never had a successful solve the three are absent and
\* solved_equilibrium is false.
C4_FailedSolveStoresNothing ==
  /\ []((call.op = "solve_equilibrium" /\ call.err = "AssertionError"
           /\ ~solved_equilibrium)
          => EquilibriumFields \cap DOMAIN values = {})
  /\ [][(call'.op = "solve_equilibrium" /\ call'.err = "AssertionError")
          => /\ solved_equilibrium' = solved_equilibrium
             /\ \A k \in EquilibriumFields :
                  /\ (k \in DOMAIN values') = (k \in DOMAIN values)
                  /\ k \in DOMAIN values => values'[k] = values[k]]_vars

\* a failed solve of two iterations on a state that never had a successful solve
C4_Witness ==
  /\ call.op = "solve_equilibrium"
  /\ call.err = "AssertionError"
  /\ ~solved_equilibrium
  /\ Len(delta) = 2
  /\ "psi_lcn" \in DOMAIN values

\* C5: every array of values has the length of x and every array of
\* midp_values the length of xm, after construction and after every rebuild.
C5_ArraysAligned ==
  /\ \A p \in DOMAIN values : Len(values[p]) = Len(x)
  /\ \A p \in DOMAIN midp_values : Len(midp_values[p]) = Len(xm)

\* the device thickness in the units of the current mode
Thickness ==
  IF is_dimensionless THEN FDiv(get_thickness, units_x) ELSE get_thickness

StrictlyIncreasing(a) == \A i \in 1..(Len(a) - 1) : a[i] < a[i + 1]

\* C6: the rebuilt mesh is strictly increasing, starts at 0, ends at
\* or below the device thickness, and the walk stopped the first time the next
\* point would exceed the device thickness.
C6_WalkStopsAtThickness ==
  (call.op = "generate_nonuniform_mesh" /\ call.err = "none") =>
    /\ StrictlyIncreasing(x)
    /\ x[1] = 0
    /\ x[Len(x)] <= Thickness
    /\ call.loc.stopped_at > Thickness

\* the physical position of a mesh node
PhysicalPosition(v) == IF is_dimensionless THEN FMul(v, units_x) ELSE v

\* C7: after construction and after every rebuild, in either unit mode, ar_ix
\* is aligned with the mesh and true exactly at the nodes whose physical
\* position the device answers with the layer ar_ind.
C7_MaskMatchesLayers ==
  (call.op \in {"__init__", "generate_nonuniform_mesh"} /\ call.err = "none") =>
    /\ Len(ar_ix) = Len(x)
    /\ \A i \in DOMAIN x :
         ar_ix[i] = (get_index(PhysicalPosition(x[i])) = ar_ind)

\* a round trip just ended: original_units right after make_dimensionless
RoundTripDone ==
  call.op = "original_units" /\ call.err = "none" /\ snap.taken

\* C8 as stated: make_dimensionless followed by original_units restores every
\* array and every scaled scalar to its value before the two calls.
C8_RoundTripExact ==
  RoundTripDone =>
    /\ ~is_dimensionless
    /\ x = snap.x
    /\ xm = snap.xm
    /\ values = snap.values
    /\ midp_values = snap.midp_values
    /\ \A f \in ScaledScalars : laser[f] = snap.laser[f]

\* b is a within one unit in the last place of a
WithinUlp(a, b) == Abs(a - b) <= Ulp(Abs(a), 1, 1)

ArrayWithinUlp(a, b) ==
  /\ Len(a) = Len(b)
  /\ \A i \in DOMAIN a : WithinUlp(a[i], b[i])

\* C8 amended: the round trip leaves is_dimensionless false, restores eps_0
\* exactly, and restores every array entry and every other scaled scalar to
\* within one unit in the last place of its value before the two calls (the
\* division and the multiplication each round).
C8_RoundTripWithinRounding ==
  RoundTripDone =>
    /\ ~is_dimensionless
    /\ ArrayWithinUlp(snap.x, x)
    /\ ArrayWithinUlp(snap.xm, xm)
    /\ DOMAIN values = DOMAIN snap.values
    /\ \A p \in DOMAIN values : ArrayWithinUlp(snap.values[p], values[p])
    /\ DOMAIN midp_values = DOMAIN snap.midp_values
    /\ \A p \in DOMAIN midp_values :
         ArrayWithinUlp(snap.midp_values[p], midp_values[p])
    /\ \A f \in ScaledScalars : WithinUlp(snap.laser[f], laser[f])
    /\ laser.eps_0 = snap.laser.eps_0

\* a round trip of a state that holds an equilibrium solution
C8_Witness == RoundTripDone /\ "psi_eq" \in DOMAIN values

\* the positions __init__ hands to the waveguide solver
SolverPositions ==
  Masked(x, [i \in DOMAIN x |->
               ~call.loc.remove_cl \/ get_index(x[i]) \notin {1, NLayers}])

\* the sum of mode * step over the positions of the active region, exactly
RECURSIVE ExactOverlap(_, _, _)
ExactOverlap(mode, pos, j) ==
  IF j = 0 THEN 0
  ELSE ExactOverlap(mode, pos, j - 1)
         + (IF get_index(pos[j]) = ar_ind THEN mode[j] * step ELSE 0)

\* C9: the mode selected at construction has an overlap with the active
\* region at least that of every candidate the solver returned, and of the
\* candidates with the largest overlap it is the first.
C9_SelectedModeHasLargestOverlap ==
  call.op = "__init__" =>
    LET pos == SolverPositions
        sel == values["wg_mode"]
        best == ExactOverlap(sel, pos, Len(pos))
        cand == call.loc.modes
    IN  /\ \A m \in DOMAIN cand : ExactOverlap(cand[m], pos, Len(pos)) <= best
        /\ \E m \in DOMAIN cand :
             /\ cand[m] = sel
             /\ n_eff = solve_wg_n_eff[m]
             /\ \A k \in DOMAIN cand :
                  k < m => ExactOverlap(cand[k], pos, Len(pos)) < best

\* two different candidates share the largest overlap
C9_Witness ==
  /\ call.op = "__init__"
  /\ \E m, k \in DOMAIN call.loc.modes :
       /\ m < k
       /\ call.loc.modes[m] # call.loc.modes[k]
       /\ call.loc.gammas[m] = call.loc.gammas[k]
       /\ \A j \in DOMAIN call.loc.modes : call.loc.gammas[j] <= call.loc.gammas[m]

\* C10: solved_lcn implies psi_lcn is present and on the current mesh, and
\* solved_equilibrium implies psi_eq, n0 and p0 are.
C10_SolvedFlagsImplyArrays ==
  /\ solved_lcn =>
       ("psi_lcn" \in DOMAIN values /\ Len(values["psi_lcn"]) = Len(x))
  /\ solved_equilibrium =>
       \A k \in EquilibriumFields :
         k \in DOMAIN values /\ Len(values[k]) = Len(x)

====
